---- MODULE Spec2Model ----
(***************************************************************************)
(* AI Tool Selection Assistant: the four Streamlit scripts of the          *)
(* repository (app.py, app_auto_detect.py, app_with_catalogue.py and the   *)
(* earlier "Improved & Robust" script kept as unnamed/part_000), modelled  *)
(* as one state machine.  A script run is a sequence of steps (load,       *)
(* step 1 .. step 5); a user interaction changes one widget and reruns the *)
(* script from the top.                                                    *)
(*                                                                         *)
(* Strings are TLA+ strings; Len, SubSeq and \o act on them character by   *)
(* character.  A DataFrame is a record [columns, rows]: the header of each *)
(* column and the rows, each row a sequence of cells aligned with the      *)
(* columns.  A cell is a string or NaN (a blank Excel cell).               *)
(***************************************************************************)
EXTENDS Integers, Sequences, FiniteSets, TLC

VARIABLES
    variant,            \* which of the four scripts runs
    workbook,           \* the uploaded workbook: a sequence of named sheets
    pc,                 \* position of the current script run
    df,                 \* the taxonomy DataFrame of the run
    status,             \* the resolver's status of the run
    sheet_used,         \* the name of the sheet the resolver chose
    cols,               \* the headers used for Function, Activity and Type
    catalogue_df,       \* the catalogue of the run
    functions,          \* step 1 option list
    selected_function,
    activities,         \* step 1 option list
    selected_activity,
    tool_types,         \* step 2 option list
    selected_type_label,
    selected_type,
    cost,
    matches,            \* step 4 result
    scores,             \* step 5: the dict, as a sequence of <<tool, score>>
    best,               \* step 5: the recommended tool
    msgs,               \* the notices the run has issued
    rendered,           \* the widgets the run has rendered
    widgets,            \* Streamlit's widget state, kept across reruns
    cycles              \* number of user interactions so far

vars == <<variant, workbook, pc, df, status, sheet_used, cols, catalogue_df,
          functions, selected_function, activities, selected_activity,
          tool_types, selected_type_label, selected_type, cost, matches,
          scores, best, msgs, rendered, widgets, cycles>>

(***************************************************************************)
(* Bounds of the model.                                                    *)
(***************************************************************************)
MaxCycles == 2
MaxSheets == 2
MaxCat == 3

(***************************************************************************)
(* Python str operations.                                                  *)
(***************************************************************************)
NaN == "<NaN>"
None == "<None>"

\* None where a DataFrame is expected
NoFrame == [none |-> TRUE]

At(s, i) == SubSeq(s, i, i)

\* the code points of the characters of the model (ASCII)
Ascii ==
    (" " :> 32) @@ ("(" :> 40) @@ (")" :> 41) @@ ("," :> 44) @@ ("-" :> 45) @@ ("." :> 46) @@ ("/" :> 47) @@ ("0" :> 48)
    @@ ("1" :> 49) @@ ("2" :> 50) @@ ("3" :> 51) @@ ("4" :> 52) @@ ("5" :> 53) @@ ("6" :> 54) @@ ("7" :> 55) @@ ("8" :> 56)
    @@ ("9" :> 57) @@ (":" :> 58) @@ ("A" :> 65) @@ ("B" :> 66) @@ ("C" :> 67) @@ ("D" :> 68) @@ ("E" :> 69) @@ ("F" :> 70)
    @@ ("G" :> 71) @@ ("H" :> 72) @@ ("I" :> 73) @@ ("J" :> 74) @@ ("K" :> 75) @@ ("L" :> 76) @@ ("M" :> 77) @@ ("N" :> 78)
    @@ ("O" :> 79) @@ ("P" :> 80) @@ ("Q" :> 81) @@ ("R" :> 82) @@ ("S" :> 83) @@ ("T" :> 84) @@ ("U" :> 85) @@ ("V" :> 86)
    @@ ("W" :> 87) @@ ("X" :> 88) @@ ("Y" :> 89) @@ ("Z" :> 90) @@ ("_" :> 95) @@ ("a" :> 97) @@ ("b" :> 98) @@ ("c" :> 99)
    @@ ("d" :> 100) @@ ("e" :> 101) @@ ("f" :> 102) @@ ("g" :> 103) @@ ("h" :> 104) @@ ("i" :> 105) @@ ("j" :> 106) @@ ("k" :> 107)
    @@ ("l" :> 108) @@ ("m" :> 109) @@ ("n" :> 110) @@ ("o" :> 111) @@ ("p" :> 112) @@ ("q" :> 113) @@ ("r" :> 114) @@ ("s" :> 115)
    @@ ("t" :> 116) @@ ("u" :> 117) @@ ("v" :> 118) @@ ("w" :> 119) @@ ("x" :> 120) @@ ("y" :> 121) @@ ("z" :> 122)

\* the lower-case letter of each upper-case letter
ToLower ==
    ("A" :> "a") @@ ("B" :> "b") @@ ("C" :> "c") @@ ("D" :> "d") @@ ("E" :> "e") @@ ("F" :> "f") @@ ("G" :> "g") @@ ("H" :> "h")
    @@ ("I" :> "i") @@ ("J" :> "j") @@ ("K" :> "k") @@ ("L" :> "l") @@ ("M" :> "m") @@ ("N" :> "n") @@ ("O" :> "o") @@ ("P" :> "p")
    @@ ("Q" :> "q") @@ ("R" :> "r") @@ ("S" :> "s") @@ ("T" :> "t") @@ ("U" :> "u") @@ ("V" :> "v") @@ ("W" :> "w") @@ ("X" :> "x")
    @@ ("Y" :> "y") @@ ("Z" :> "z")

\* ord(c)
Ord(c) == Ascii[c]

lower_ch(c) == IF c \in DOMAIN ToLower THEN ToLower[c] ELSE c

RECURSIVE lower(_)
lower(s) == IF s = "" THEN "" ELSE lower_ch(Head(s)) \o lower(Tail(s))

isspace(c) == c = " "

isalnum(c) == Ord(c) \in (48..57) \cup (65..90) \cup (97..122)

RECURSIVE lstrip(_)
lstrip(s) == IF s # "" /\ isspace(Head(s)) THEN lstrip(Tail(s)) ELSE s

RECURSIVE rstrip(_)
rstrip(s) ==
    IF s # "" /\ isspace(At(s, Len(s))) THEN rstrip(SubSeq(s, 1, Len(s) - 1)) ELSE s

strip(s) == rstrip(lstrip(s))

startswith(s, p) == Len(s) >= Len(p) /\ SubSeq(s, 1, Len(p)) = p

\* sub in s
contains(s, sub) ==
    \E i \in 1..(Len(s) - Len(sub) + 1) : SubSeq(s, i, i + Len(sub) - 1) = sub

\* s.split(sep)[0]
split_first(s, sep) ==
    IF contains(s, sep)
    THEN LET i == CHOOSE k \in 1..(Len(s) - Len(sep) + 1) :
                    /\ SubSeq(s, k, k + Len(sep) - 1) = sep
                    /\ \A j \in 1..(k - 1) : SubSeq(s, j, j + Len(sep) - 1) # sep
         IN SubSeq(s, 1, i - 1)
    ELSE s

\* a < b on Python strings: by code point, a proper prefix first
str_less(a, b) ==
    \E k \in 1..(Len(b)) :
        /\ \A j \in 1..(k - 1) : j <= Len(a) /\ At(a, j) = At(b, j)
        /\ \/ k = Len(a) + 1
           \/ k <= Len(a) /\ Ord(At(a, k)) < Ord(At(b, k))

\* the containment test with the case kept
str_contains_case(cell, pat) ==
    IF cell = NaN THEN FALSE ELSE contains(cell, pat)

\* Series.str.contains(pat, case=False, na=False) on one cell, for a pattern
\* without regular-expression metacharacters
str_contains_nocase(cell, pat) ==
    IF cell = NaN THEN FALSE ELSE contains(lower(cell), lower(pat))

(***************************************************************************)
(* DataFrames.                                                             *)
(***************************************************************************)
RECURSIVE seq_of(_)
\* the elements of a set of integers, ascending
seq_of(S) ==
    IF S = {} THEN <<>>
    ELSE LET m == CHOOSE x \in S : \A y \in S : x <= y
         IN <<m>> \o seq_of(S \ {m})

Range(s) == {s[i] : i \in 1..Len(s)}

\* the DataFrame of a sheet (pd.read_excel)
frame(sheet) == [columns |-> sheet.columns, rows |-> sheet.rows]

\* df.loc[:, keep]: the columns at the positions keep, in that order
project(d, keep) ==
    [columns |-> [k \in 1..Len(keep) |-> d.columns[keep[k]]],
     rows |-> [r \in 1..Len(d.rows) |-> [k \in 1..Len(keep) |-> d.rows[r][keep[k]]]]]

\* the positions of the columns named col
locs(d, col) == seq_of({i \in 1..Len(d.columns) : d.columns[i] = col})

\* df[col] = "": a new last column of empty strings
add_blank(d, col) ==
    [columns |-> Append(d.columns, col),
     rows |-> [r \in 1..Len(d.rows) |-> Append(d.rows[r], "")]]

\* df is None or df.empty: no rows or no columns
empty(d) == d = NoFrame \/ Len(d.rows) = 0 \/ Len(d.columns) = 0

\* str(cell): a blank cell becomes the text "nan"
astype_str(cell) == IF cell = NaN THEN "nan" ELSE cell

(***************************************************************************)
(* Header Normalizer.                                                      *)
(***************************************************************************)
REQUIRED == <<"Business Functions", "Business Function Activities", "AI Tool Type">>

\* columns not matching ^Unnamed (case-insensitive), headers stripped
norm_cols(d) ==
    LET keep == seq_of({i \in 1..Len(d.columns) :
                          ~startswith(lower(d.columns[i]), "unnamed")})
        kept == project(d, keep)
    IN [kept EXCEPT !.columns = [k \in 1..Len(keep) |-> strip(kept.columns[k])]]

\* the keys of rename_map, by the canonical header they map to
RENAME_KEYS ==
    << {"business function", "business functions", "function", "dept",
        "department", "function area", "biz function"},
       {"business function activities", "business activities",
        "activity", "activities", "process step", "task"},
       {"ai tool type", "ai tool types", "ai type", "tool type",
        "ai category", "ai tool category"} >>

\* rename_map.get(key, dflt) of app.py and app_auto_detect.py
rename_map_get(key, dflt) ==
    IF key \in RENAME_KEYS[1] THEN REQUIRED[1]
    ELSE IF key \in RENAME_KEYS[2] THEN REQUIRED[2]
    ELSE IF key \in RENAME_KEYS[3] THEN REQUIRED[3]
    ELSE dflt

\* df.rename(columns={c: rename_map.get(c.lower(), c) ...}): every column
\* whose header is a key of the dict is renamed, duplicates included
rename_columns(d) ==
    [d EXCEPT !.columns = [k \in 1..Len(d.columns) |->
                              rename_map_get(lower(d.columns[k]), d.columns[k])]]

\* app_auto_detect.py: strip and rename, nothing synthesized
normalize_and_rename_columns_ad(d) == rename_columns(norm_cols(d))

RECURSIVE ensure_required(_, _)
\* for col in REQUIRED[i..]: if col not in df.columns: df[col] = ""
ensure_required(d, i) ==
    IF i > Len(REQUIRED) THEN d
    ELSE IF REQUIRED[i] \in Range(d.columns) THEN ensure_required(d, i + 1)
    ELSE ensure_required(add_blank(d, REQUIRED[i]), i + 1)

\* app.py: strip, rename, then synthesize the missing canonical columns
normalize_and_rename_columns(d) == ensure_required(rename_columns(norm_cols(d)), 1)

\* the keys of the aliases dict of find_matrix_sheet
ALIAS_KEYS ==
    << {"business function", "business functions"},
       {"business function activities", "business activities", "activity"},
       {"ai tool type", "ai tool types", "tool type"} >>

\* aliases.get(key, dflt)
aliases_get(key, dflt) ==
    IF key \in ALIAS_KEYS[1] THEN REQUIRED[1]
    ELSE IF key \in ALIAS_KEYS[2] THEN REQUIRED[2]
    ELSE IF key \in ALIAS_KEYS[3] THEN REQUIRED[3]
    ELSE dflt

RECURSIVE alnum_only(_)
alnum_only(s) ==
    IF s = "" THEN ""
    ELSE (IF isalnum(Head(s)) THEN Head(s) ELSE "") \o alnum_only(Tail(s))

\* "".join(ch for ch in s.lower().strip() if ch.isalnum())
norm(s) == alnum_only(strip(lower(s)))

FN_ALIASES == <<"Business Functions", "Business Function", "Function", "Dept",
                "Department", "Function Area", "Biz Function">>
ACT_ALIASES == <<"Business Function Activities", "Business Activities", "Activity",
                 "Activities", "Process Step", "Task">>
TYPE_ALIASES == <<"AI Tool Type", "AI Tool Types", "AI Type", "Tool Type",
                  "AI Category", "AI Tool Category">>

\* the first column whose norm is the norm of an alias, else None
find_col(d, aliases) ==
    LET target == {norm(aliases[i]) : i \in 1..Len(aliases)}
        hits == {i \in 1..Len(d.columns) : norm(d.columns[i]) \in target}
    IN IF hits = {} THEN None
       ELSE d.columns[CHOOSE i \in hits : \A j \in hits : i <= j]

(***************************************************************************)
(* Multi-Sheet Resolver.  A workbook is the sequence of its sheets in      *)
(* source order (the dict of pd.read_excel(sheet_name=None)); sheet names  *)
(* are unique.                                                             *)
(***************************************************************************)
has_required(d) == \A i \in 1..Len(REQUIRED) : REQUIRED[i] \in Range(d.columns)

first_of(S) == CHOOSE i \in S : \A j \in S : i <= j

\* df[c] = df[c].astype(str) for c in REQUIRED
required_as_str(d) ==
    [d EXCEPT !.rows = [r \in 1..Len(d.rows) |-> [k \in 1..Len(d.columns) |->
        IF d.columns[k] \in Range(REQUIRED) THEN astype_str(d.rows[r][k])
        ELSE d.rows[r][k]]]]

last_of(S) == CHOOSE i \in S : \A j \in S : i >= j

\* a resolver that lets the last matching sheet win
load_matching_sheet_last(wb) ==
    LET qual == {i \in 1..Len(wb) :
                    has_required(normalize_and_rename_columns_ad(frame(wb[i])))}
    IN IF qual # {}
       THEN [df |-> required_as_str(
                        normalize_and_rename_columns_ad(frame(wb[last_of(qual)]))),
             name |-> wb[last_of(qual)].name, status |-> "ok"]
       ELSE [df |-> normalize_and_rename_columns_ad(frame(wb[1])),
             name |-> wb[1].name, status |-> "missing_required_columns"]

\* app_auto_detect.py: the first sheet that has the required columns after
\* normalization, else the first sheet with the reason
load_matching_sheet(wb) ==
    LET qual == {i \in 1..Len(wb) :
                    has_required(normalize_and_rename_columns_ad(frame(wb[i])))}
    IN IF qual # {}
       THEN [df |-> required_as_str(
                        normalize_and_rename_columns_ad(frame(wb[first_of(qual)]))),
             name |-> wb[first_of(qual)].name, status |-> "ok"]
       ELSE [df |-> normalize_and_rename_columns_ad(frame(wb[1])),
             name |-> wb[1].name, status |-> "missing_required_columns"]

\* df.rename(columns={c: aliases.get(c.strip().lower(), c) ...})
alias_columns(d) ==
    [d EXCEPT !.columns = [k \in 1..Len(d.columns) |->
                              aliases_get(lower(strip(d.columns[k])), d.columns[k])]]

\* df[REQ_MATRIX]: the required columns in that order, duplicates included
required_only(d) ==
    project(d, locs(d, REQUIRED[1]) \o locs(d, REQUIRED[2]) \o locs(d, REQUIRED[3]))

\* app_with_catalogue.py: the sheet named Matrix when it has the required
\* headers as they are, else the first sheet that has them after aliasing
find_matrix_sheet(wb) ==
    LET named == {i \in 1..Len(wb) : wb[i].name = "Matrix"}
        qual == {i \in 1..Len(wb) : has_required(alias_columns(norm_cols(frame(wb[i]))))}
    IN IF named # {} /\ has_required(norm_cols(frame(wb[first_of(named)])))
       THEN [df |-> norm_cols(frame(wb[first_of(named)])), name |-> "Matrix",
             status |-> "ok"]
       ELSE IF qual # {}
       THEN [df |-> required_only(alias_columns(norm_cols(frame(wb[first_of(qual)])))),
             name |-> wb[first_of(qual)].name, status |-> "ok"]
       ELSE [df |-> NoFrame, name |-> None, status |-> "missing_required_columns"]

preferred_names == <<"Catalogue", "Catalog", "Tools", "Tool Catalogue">>

\* app_with_catalogue.py: a sheet with a preferred name, in the order of the
\* names, else the first sheet with Tool and Type columns
find_catalogue_sheet(wb) ==
    LET pref == {n \in 1..Len(preferred_names) :
                    \E i \in 1..Len(wb) : wb[i].name = preferred_names[n]}
        scan == {i \in 1..Len(wb) :
                    {"Tool", "Type"} \subseteq Range(norm_cols(frame(wb[i])).columns)}
    IN IF pref # {}
       THEN LET i == CHOOSE k \in 1..Len(wb) : wb[k].name = preferred_names[first_of(pref)]
            IN [df |-> norm_cols(frame(wb[i])), name |-> wb[i].name]
       ELSE IF scan # {}
       THEN [df |-> norm_cols(frame(wb[first_of(scan)])), name |-> wb[first_of(scan)].name]
       ELSE [df |-> NoFrame, name |-> None]

(***************************************************************************)
(* Catalogue Table.                                                        *)
(***************************************************************************)
desired_cols == <<"Tool", "Type", "Features", "Strengths", "Limitations", "Pricing", "Link">>

DEMO_CATALOGUE ==
    [columns |-> desired_cols,
     rows |-> <<
        <<"ChatGPT", "LLM Assistant", "Chatbot, content gen", "Versatile",
          "No real-time data", "Freemium", "https://chatgpt.com/">>,
        <<"MidJourney", "Image Generation AI", "Image gen", "High quality",
          "Subscription", "Subscription", "https://www.midjourney.com/">>,
        <<"UiPath", "RPA", "Automation", "Scalable",
          "Complex setup", "Enterprise", "https://www.uipath.com/">>,
        <<"Figma AI", "Creative/Design AI", "Design, prototyping", "User-friendly",
          "Limited advanced features", "Freemium", "https://www.figma.com/ai/">>,
        <<"Canva AI", "Creative/Design AI", "Graphic design", "Easy to use",
          "Less technical", "Freemium", "https://www.canva.com/ai/">> >>]

RECURSIVE ensure_desired(_, _)
\* for c in desired_cols[i..]: if c not in catalogue_df.columns: catalogue_df[c] = ""
ensure_desired(d, i) ==
    IF i > Len(desired_cols) THEN d
    ELSE IF desired_cols[i] \in Range(d.columns) THEN ensure_desired(d, i + 1)
    ELSE ensure_desired(add_blank(d, desired_cols[i]), i + 1)

\* the catalogue sheet cut to the known columns, the missing ones blank
catalogue_of(d) ==
    LET full == ensure_desired(norm_cols(d), 1)
    IN project(full, [k \in 1..Len(desired_cols) |-> first_of(Range(locs(full, desired_cols[k])))])

\* the cell of row r in the column named col
cell(d, r, col) == d.rows[r][first_of(Range(locs(d, col)))]

\* the rows at the positions keep
take_rows(d, keep) == [d EXCEPT !.rows = [k \in 1..Len(keep) |-> d.rows[keep[k]]]]

(***************************************************************************)
(* Cascading Selector.                                                     *)
(***************************************************************************)
\* Series.dropna()
dropna(s) == SelectSeq(s, LAMBDA c : c # NaN)

RECURSIVE unique(_)
\* Series.unique(): the distinct values in order of first appearance
unique(s) ==
    IF s = <<>> THEN <<>>
    ELSE LET init == unique(SubSeq(s, 1, Len(s) - 1))
         IN IF s[Len(s)] \in Range(init) THEN init ELSE Append(init, s[Len(s)])

\* x put into the ascending list s after the elements not greater than x
insort(s, x) ==
    LET n == Cardinality({i \in 1..Len(s) : ~str_less(x, s[i])})
    IN SubSeq(s, 1, n) \o <<x>> \o SubSeq(s, n + 1, Len(s))

RECURSIVE sorted(_)
\* sorted(list of str)
sorted(s) == IF s = <<>> THEN <<>> ELSE insort(sorted(SubSeq(s, 1, Len(s) - 1)), s[Len(s)])

\* df[col] as the list of its cells
column(d, col) == [r \in 1..Len(d.rows) |-> cell(d, r, col)]

\* df.loc[mask, col] as the list of its cells
column_where(d, mask, col) == [k \in 1..Len(mask) |-> cell(d, mask[k], col)]

\* sorted(pd.Series(df[fcol].dropna().astype(str).unique()))
functions_of(d, fcol) == sorted(unique(dropna(column(d, fcol))))

\* the rows with df[fcol] == f
function_mask(d, fcol, f) == seq_of({r \in 1..Len(d.rows) : cell(d, r, fcol) = f})

\* sorted(pd.Series(df.loc[df[fcol] == f, acol].dropna().astype(str).unique()))
activities_of(d, fcol, acol, f) ==
    sorted(unique(dropna(column_where(d, function_mask(d, fcol, f), acol))))

\* the rows with (df[fcol] == f) & (df[acol] == a)
pair_mask(d, fcol, acol, f, a) ==
    seq_of({r \in 1..Len(d.rows) : cell(d, r, fcol) = f /\ cell(d, r, acol) = a})

\* pd.Series(df.loc[mask, tcol].dropna().astype(str).unique()).tolist()
tool_types_of(d, fcol, acol, tcol, f, a) ==
    unique(dropna(column_where(d, pair_mask(d, fcol, acol, f, a), tcol)))

impact_for_type(t) ==
    IF t \in {"LLM Assistant", "Image Generation AI", "Creative/Design AI"} THEN "High"
    ELSE IF t = "RPA" THEN "Medium"
    ELSE "Unknown"

\* f"{t} (Impact: {impact_for_type(t)})"
label_of(t) == t \o " (Impact: " \o impact_for_type(t) \o ")"

labels_of(types) == [k \in 1..Len(types) |-> label_of(types[k])]

\* selected_type_label.split(" (")[0]
clean_type(label) == split_first(label, " (")

(***************************************************************************)
(* Tool Matcher.                                                           *)
(***************************************************************************)
COST_OPTIONS == <<"Free", "Freemium", "Subscription", "Enterprise">>

\* the catalogue's cell as the script compares it: app_with_catalogue.py
\* compares str(cell), the others the cell itself
compared(v, c) == IF v = "with_catalogue" THEN astype_str(c) ELSE c

\* rows with Type == t
type_rows(v, cat, t) ==
    seq_of({r \in 1..Len(cat.rows) : compared(v, cell(cat, r, "Type")) = t})

\* a cost filter that takes the pricing equal to the tier only
strict_rows_exact(v, cat, t, c) ==
    seq_of({r \in 1..Len(cat.rows) :
              /\ compared(v, cell(cat, r, "Type")) = t
              /\ compared(v, cell(cat, r, "Pricing")) = c})

\* rows with (Type == t) & Pricing.str.contains(c, case=False, na=False)
strict_rows(v, cat, t, c) ==
    seq_of({r \in 1..Len(cat.rows) :
              /\ compared(v, cell(cat, r, "Type")) = t
              /\ str_contains_nocase(compared(v, cell(cat, r, "Pricing")), c)})

\* if matches.empty: the cost filter is dropped
relaxed(v, cat, t, c) == strict_rows(v, cat, t, c) = <<>>

matches_of(v, cat, t, c) ==
    IF relaxed(v, cat, t, c) THEN take_rows(cat, type_rows(v, cat, t))
    ELSE take_rows(cat, strict_rows(v, cat, t, c))

(***************************************************************************)
(* Scoring & Recommender.  A dict is the sequence of its <<key, value>>    *)
(* pairs in insertion order.  The sliders are the set of <<tool, value>>   *)
(* pairs the user has set; a slider not set shows 3.                       *)
(***************************************************************************)
DEFAULT_SCORE == 3
MIN_SCORE == 1
MAX_SCORE == 5

slider(sliders, tool) ==
    IF \E p \in sliders : p[1] = tool
    THEN (CHOOSE p \in sliders : p[1] = tool)[2]
    ELSE DEFAULT_SCORE

\* dict[k] = v
dict_set(dict, k, v) ==
    IF \E i \in 1..Len(dict) : dict[i][1] = k
    THEN [i \in 1..Len(dict) |-> IF dict[i][1] = k THEN <<k, v>> ELSE dict[i]]
    ELSE Append(dict, <<k, v>>)

RECURSIVE scores_of(_, _, _)
\* for _, row in matches.iterrows(): scores[row['Tool']] = st.slider(...)
scores_of(m, n, sliders) ==
    IF n = 0 THEN <<>>
    ELSE dict_set(scores_of(m, n - 1, sliders), cell(m, n, "Tool"),
                  slider(sliders, cell(m, n, "Tool")))

\* a max() that lets a later equal value win
replaces_on_tie(v, cand) == v >= cand

\* whether max() replaces its candidate cand by the later value v
replaces(v, cand) == v > cand

RECURSIVE max_from(_, _, _)
\* max(scores, key=scores.get): the candidate so far is at position b
max_from(dict, i, b) ==
    IF i > Len(dict) THEN dict[b][1]
    ELSE IF replaces(dict[i][2], dict[b][2]) THEN max_from(dict, i + 1, i)
    ELSE max_from(dict, i + 1, b)

\* max(scores, key=scores.get) if scores else None
best_of(dict) == IF dict = <<>> THEN None ELSE max_from(dict, 2, 1)

(***************************************************************************)
(* Streamlit widgets.  A selectbox keeps the user's choice across reruns   *)
(* as long as it is rendered with the same options; with other options it  *)
(* is a new widget and shows its default.                                  *)
(***************************************************************************)
NoWidget == [opts |-> <<>>, val |-> None]

NoWidgets == [function |-> NoWidget, activity |-> NoWidget, type |-> NoWidget,
              cost |-> NoWidget, score |-> {}]

\* st.selectbox(label, options, index): None when there is nothing to choose
selectbox(w, options, index) ==
    IF options = <<>> THEN None
    ELSE IF w.opts = options /\ w.val \in Range(options) THEN w.val
    ELSE options[index]

\* the state of the widgets a run did not render is dropped
kept_widgets(w, rend) ==
    [function |-> IF "function" \in rend THEN w.function ELSE NoWidget,
     activity |-> IF "activity" \in rend THEN w.activity ELSE NoWidget,
     type |-> IF "type" \in rend THEN w.type ELSE NoWidget,
     cost |-> IF "cost" \in rend THEN w.cost ELSE NoWidget,
     score |-> {p \in w.score : ("score:" \o p[1]) \in rend}]

\* index of the Cost Structure selectbox: index=1 but for the earlier script
cost_index(v) == IF v = "improved" THEN 1 ELSE 2

Variants == {"app", "auto_detect", "with_catalogue", "improved"}

Terminal == {"done", "stopped", "crashed"}

(***************************************************************************)
(* The script run: load.                                                   *)
(***************************************************************************)
selection_vars == <<functions, selected_function, activities, selected_activity,
                    tool_types, selected_type_label, selected_type, cost, matches,
                    scores, best>>

input_vars == <<variant, workbook, cycles>>

\* app.py: sheet 0, normalized; stop when there is no data
Load_app ==
    /\ pc = "load" /\ variant = "app"
    /\ df' = normalize_and_rename_columns(frame(workbook[1]))
    /\ sheet_used' = workbook[1].name
    /\ status' = ""
    /\ cols' = REQUIRED
    /\ catalogue_df' = DEMO_CATALOGUE
    /\ pc' = IF empty(df') THEN "stopped" ELSE "step1"
    /\ UNCHANGED <<input_vars, selection_vars, msgs, rendered, widgets>>

\* a load step that goes on to step 1 whatever the status of the resolver
Load_auto_detect_unchecked ==
    /\ pc = "load" /\ variant = "auto_detect"
    /\ LET r == load_matching_sheet(workbook)
       IN /\ df' = r.df
          /\ sheet_used' = r.name
          /\ status' = r.status
          /\ msgs' = msgs
          /\ pc' = IF empty(r.df) THEN "stopped" ELSE "step1"
    /\ cols' = REQUIRED
    /\ catalogue_df' = DEMO_CATALOGUE
    /\ UNCHANGED <<input_vars, selection_vars, rendered, widgets>>

\* app_auto_detect.py: the matching sheet; stop without data or with the
\* missing-columns status
Load_auto_detect ==
    /\ pc = "load" /\ variant = "auto_detect"
    /\ LET r == load_matching_sheet(workbook)
       IN /\ df' = r.df
          /\ sheet_used' = r.name
          /\ status' = r.status
          /\ msgs' = IF ~empty(r.df) /\ r.status = "missing_required_columns"
                     THEN msgs \cup {"error:missing_required_columns"} ELSE msgs
          /\ pc' = IF empty(r.df) \/ r.status = "missing_required_columns"
                   THEN "stopped" ELSE "step1"
    /\ cols' = REQUIRED
    /\ catalogue_df' = DEMO_CATALOGUE
    /\ UNCHANGED <<input_vars, selection_vars, rendered, widgets>>

\* app_with_catalogue.py: the Matrix sheet, then the Catalogue sheet or the
\* built-in list
Load_with_catalogue ==
    /\ pc = "load" /\ variant = "with_catalogue"
    /\ LET r == find_matrix_sheet(workbook)
           c == find_catalogue_sheet(workbook)
       IN /\ df' = r.df
          /\ sheet_used' = r.name
          /\ status' = r.status
          /\ IF r.df = NoFrame \/ r.status # "ok"
             THEN /\ msgs' = msgs \cup {"error:missing_required_columns"}
                  /\ pc' = "stopped"
                  /\ UNCHANGED catalogue_df
             ELSE /\ pc' = "step1"
                  /\ IF c.df # NoFrame
                     THEN /\ catalogue_df' = catalogue_of(c.df)
                          /\ UNCHANGED msgs
                     ELSE /\ catalogue_df' = DEMO_CATALOGUE
                          /\ msgs' = msgs \cup {"warning:demo_catalogue"}
    /\ cols' = REQUIRED
    /\ UNCHANGED <<input_vars, selection_vars, rendered, widgets>>

\* the earlier script: sheet 0 as it is, its columns found by find_col
Load_improved ==
    /\ pc = "load" /\ variant = "improved"
    /\ df' = frame(workbook[1])
    /\ sheet_used' = workbook[1].name
    /\ status' = ""
    /\ cols' = <<find_col(df', FN_ALIASES), find_col(df', ACT_ALIASES),
                 find_col(df', TYPE_ALIASES)>>
    /\ catalogue_df' = DEMO_CATALOGUE
    /\ IF None \in Range(cols')
       THEN /\ msgs' = msgs \cup {"warning:missing_columns"}
            /\ pc' = "stopped"
       ELSE /\ pc' = "step1"
            /\ UNCHANGED msgs
    /\ UNCHANGED <<input_vars, selection_vars, rendered, widgets>>

(***************************************************************************)
(* The script run: steps 1 to 5.                                           *)
(***************************************************************************)
\* df[col] is one column: with a duplicated header it is a DataFrame, and
\* .unique() on it raises AttributeError
one_column(d, col) == Len(locs(d, col)) = 1

Crash ==
    /\ pc' = "crashed"
    /\ msgs' = msgs \cup {"exception"}

\* Step 1: the Business Function selectbox
Step1Function ==
    /\ pc = "step1"
    /\ IF one_column(df, cols[1])
       THEN /\ functions' = functions_of(df, cols[1])
            /\ selected_function' = selectbox(widgets.function, functions', 1)
            /\ widgets' = [widgets EXCEPT
                             !.function = [opts |-> functions', val |-> selected_function']]
            /\ rendered' = rendered \cup {"function"}
            /\ pc' = "step1b"
            /\ UNCHANGED msgs
       ELSE /\ Crash
            /\ UNCHANGED <<functions, selected_function, widgets, rendered>>
    /\ UNCHANGED <<input_vars, df, status, sheet_used, cols, catalogue_df, activities,
                   selected_activity, tool_types, selected_type_label, selected_type,
                   cost, matches, scores, best>>

\* Step 1: the Activity selectbox
Step1Activity ==
    /\ pc = "step1b"
    /\ IF one_column(df, cols[2])
       THEN /\ activities' = activities_of(df, cols[1], cols[2], selected_function)
            /\ selected_activity' = selectbox(widgets.activity, activities', 1)
            /\ widgets' = [widgets EXCEPT
                             !.activity = [opts |-> activities', val |-> selected_activity']]
            /\ rendered' = rendered \cup {"activity"}
            /\ pc' = "step2"
            /\ UNCHANGED msgs
       ELSE /\ Crash
            /\ UNCHANGED <<activities, selected_activity, widgets, rendered>>
    /\ UNCHANGED <<input_vars, df, status, sheet_used, cols, catalogue_df, functions,
                   selected_function, tool_types, selected_type_label, selected_type,
                   cost, matches, scores, best>>

\* a step 2 that goes on to the cost stage without any tool type
Step2_unguarded ==
    /\ pc = "step2"
    /\ IF ~one_column(df, cols[3])
       THEN /\ Crash
            /\ UNCHANGED <<tool_types, selected_type_label, selected_type, widgets, rendered>>
       ELSE /\ tool_types' = tool_types_of(df, cols[1], cols[2], cols[3],
                                           selected_function, selected_activity)
            /\ selected_type_label' = selectbox(widgets.type, labels_of(tool_types'), 1)
            /\ selected_type' = clean_type(selected_type_label')
            /\ widgets' = [widgets EXCEPT !.type =
                  [opts |-> labels_of(tool_types'), val |-> selected_type_label']]
            /\ rendered' = rendered \cup {"type"}
            /\ pc' = "step3"
            /\ UNCHANGED msgs
    /\ UNCHANGED <<input_vars, df, status, sheet_used, cols, catalogue_df, functions,
                   selected_function, activities, selected_activity, cost, matches,
                   scores, best>>

\* Step 2: the tool types of the pair; without any, a warning and stop
Step2 ==
    /\ pc = "step2"
    /\ IF ~one_column(df, cols[3])
       THEN /\ Crash
            /\ UNCHANGED <<tool_types, selected_type_label, selected_type, widgets, rendered>>
       ELSE /\ tool_types' = tool_types_of(df, cols[1], cols[2], cols[3],
                                           selected_function, selected_activity)
            /\ IF Len(tool_types') = 0
               THEN /\ msgs' = msgs \cup {"warning:no_tool_types"}
                    /\ pc' = "stopped"
                    /\ UNCHANGED <<selected_type_label, selected_type, widgets, rendered>>
               ELSE /\ selected_type_label' =
                          selectbox(widgets.type, labels_of(tool_types'), 1)
                    /\ selected_type' = clean_type(selected_type_label')
                    /\ widgets' = [widgets EXCEPT !.type =
                          [opts |-> labels_of(tool_types'), val |-> selected_type_label']]
                    /\ rendered' = rendered \cup {"type"}
                    /\ pc' = "step3"
                    /\ UNCHANGED msgs
    /\ UNCHANGED <<input_vars, df, status, sheet_used, cols, catalogue_df, functions,
                   selected_function, activities, selected_activity, cost, matches,
                   scores, best>>

\* Step 3: the Cost Structure selectbox
Step3 ==
    /\ pc = "step3"
    /\ cost' = selectbox(widgets.cost, COST_OPTIONS, cost_index(variant))
    /\ widgets' = [widgets EXCEPT !.cost = [opts |-> COST_OPTIONS, val |-> cost']]
    /\ rendered' = rendered \cup {"cost"}
    /\ pc' = "step4"
    /\ UNCHANGED <<input_vars, df, status, sheet_used, cols, catalogue_df, functions,
                   selected_function, activities, selected_activity, tool_types,
                   selected_type_label, selected_type, matches, scores, best, msgs>>

\* Step 4: the matching tools; the notice when the cost filter found none
Step4 ==
    /\ pc = "step4"
    /\ matches' = matches_of(variant, catalogue_df, selected_type, cost)
    /\ msgs' = IF relaxed(variant, catalogue_df, selected_type, cost)
               THEN msgs \cup {"info:cost_relaxed"} ELSE msgs
    /\ rendered' = rendered \cup {"table"}
    /\ pc' = "step5"
    /\ UNCHANGED <<input_vars, df, status, sheet_used, cols, catalogue_df, functions,
                   selected_function, activities, selected_activity, tool_types,
                   selected_type_label, selected_type, cost, scores, best, widgets>>

\* if best_tool: (app.py and the earlier script) / if scores: (the others)
recommends(v, dict) ==
    IF v \in {"app", "improved"} THEN best_of(dict) \notin {None, ""}
    ELSE dict # <<>>

\* Step 5: a slider per matched tool and the recommendation
Step5(sliders) ==
    /\ pc = "step5"
    /\ scores' = scores_of(matches, Len(matches.rows), sliders)
    /\ best' = best_of(scores')
    /\ msgs' = IF recommends(variant, scores') THEN msgs \cup {"success"} ELSE msgs
    /\ rendered' = rendered \cup {"score:" \o scores'[i][1] : i \in 1..Len(scores')}
    /\ pc' = "done"
    /\ UNCHANGED <<input_vars, df, status, sheet_used, cols, catalogue_df, functions,
                   selected_function, activities, selected_activity, tool_types,
                   selected_type_label, selected_type, cost, matches, widgets>>

(***************************************************************************)
(* User interaction: one widget of the page is changed and the script      *)
(* reruns from the top with nothing but the widget state kept.             *)
(***************************************************************************)
Rerun ==
    /\ pc' = "load"
    /\ df' = NoFrame
    /\ status' = ""
    /\ sheet_used' = None
    /\ cols' = <<None, None, None>>
    /\ catalogue_df' = NoFrame
    /\ functions' = <<>>
    /\ selected_function' = None
    /\ activities' = <<>>
    /\ selected_activity' = None
    /\ tool_types' = <<>>
    /\ selected_type_label' = None
    /\ selected_type' = None
    /\ cost' = None
    /\ matches' = NoFrame
    /\ scores' = <<>>
    /\ best' = None
    /\ msgs' = {}
    /\ rendered' = {}
    /\ cycles' = cycles + 1
    /\ UNCHANGED <<variant, workbook>>

\* the user picks another option of a selectbox on the page
UserSelect(wid, v) ==
    /\ pc \in Terminal
    /\ cycles < MaxCycles
    /\ wid \in rendered
    /\ v \in Range(widgets[wid].opts)
    /\ v # widgets[wid].val
    /\ widgets' = kept_widgets([widgets EXCEPT ![wid].val = v], rendered)
    /\ Rerun

\* the user moves the slider of a matched tool
UserScore(tool, v) ==
    /\ pc \in Terminal
    /\ cycles < MaxCycles
    /\ ("score:" \o tool) \in rendered
    /\ v # slider(widgets.score, tool)
    /\ widgets' = kept_widgets(
          [widgets EXCEPT !.score = {p \in @ : p[1] # tool} \cup {<<tool, v>>}], rendered)
    /\ Rerun

SelectWidgets == {"function", "activity", "type", "cost"}

OptionsOnPage == UNION {Range(widgets[w].opts) : w \in SelectWidgets}

ToolsOnPage == {scores[i][1] : i \in 1..Len(scores)}

(***************************************************************************)
(* The workbooks of the pipeline specification.                            *)
(***************************************************************************)
TaxonomyRows ==
    << <<"HR", "Hiring", "RPA">>,
       <<"HR", "Hiring", "LLM Assistant">>,
       <<"HR", "Payroll", "Chatbot (LLM)">>,
       <<"Ops", NaN, "RPA">>,
       <<"Ops", "Audit", "Creative/Design AI">> >>

CanonicalSheet(name) == [name |-> name, columns |-> REQUIRED, rows |-> TaxonomyRows]

AliasSheet ==
    [name |-> "Sheet1",
     columns |-> <<" Dept ", "Unnamed: 1", "TASK", "ai category">>,
     rows |-> << <<"HR", NaN, "Hiring", "RPA">>,
                 <<"Ops", NaN, "Audit", "Creative/Design AI">> >>]

LightAliasSheet ==
    [name |-> "Data",
     columns |-> <<"Business Function", "Activity", "Tool Type">>,
     rows |-> << <<"Ops", "Audit", "Creative/Design AI">>,
                 <<"Ops", "Audit", "Chatbot">> >>]

NoTypeSheet ==
    [name |-> "Sheet1",
     columns |-> <<"Function", "Activity", "Notes">>,
     rows |-> << <<"HR", "Hiring", "n1">>, <<"Ops", "Audit", "n2">> >>]

DuplicateSheet ==
    [name |-> "Sheet1",
     columns |-> <<"Business Function", "Business Functions", "Activity", "Tool Type">>,
     rows |-> << <<"Ops", "Sales", "Hiring", "RPA">>, <<"HR", "Ops", "Audit", "RPA">> >>]

InnerSpaceSheet ==
    [name |-> "Sheet1",
     columns |-> <<"Function  Area", "Process Step", "AI_Tool_Type">>,
     rows |-> << <<"HR", "Hiring", "RPA">>, <<"Ops", "Audit", "LLM Assistant">> >>]

NoRowsSheet == [name |-> "Sheet1", columns |-> REQUIRED, rows |-> <<>>]

BlankFunctionSheet ==
    [name |-> "Sheet1", columns |-> REQUIRED,
     rows |-> << <<NaN, "Hiring", "RPA">>, <<NaN, "Audit", "RPA">> >>]

NotesSheet ==
    [name |-> "Notes", columns |-> <<"Topic", "Text">>, rows |-> << <<"a", "b">> >>]

CatalogueSheet ==
    [name |-> "Catalogue",
     columns |-> <<"Tool", "Type", "Pricing">>,
     rows |-> << <<"Zapier", "RPA", "Free tier">>,
                 <<"Claude", "LLM Assistant", NaN>>,
                 <<"Gemini", "LLM Assistant", "Freemium">> >>]

Workbooks ==
    { <<CanonicalSheet("Sheet1")>>,
      <<AliasSheet>>,
      <<NoTypeSheet>>,
      <<DuplicateSheet>>,
      <<InnerSpaceSheet>>,
      <<NoRowsSheet>>,
      <<BlankFunctionSheet>>,
      <<NotesSheet, NoTypeSheet>>,
      <<NotesSheet, LightAliasSheet, CanonicalSheet("Matrix"), CatalogueSheet>> }

(***************************************************************************)
(* The pipeline specification.                                             *)
(***************************************************************************)
FreshRun ==
    /\ pc = "load"
    /\ df = NoFrame
    /\ status = ""
    /\ sheet_used = None
    /\ cols = <<None, None, None>>
    /\ catalogue_df = NoFrame
    /\ functions = <<>>
    /\ selected_function = None
    /\ activities = <<>>
    /\ selected_activity = None
    /\ tool_types = <<>>
    /\ selected_type_label = None
    /\ selected_type = None
    /\ cost = None
    /\ matches = NoFrame
    /\ scores = <<>>
    /\ best = None
    /\ msgs = {}
    /\ rendered = {}

Init ==
    /\ variant \in Variants
    /\ workbook \in Workbooks
    /\ widgets = NoWidgets
    /\ cycles = 0
    /\ FreshRun

Next ==
    \/ Load_app
    \/ Load_auto_detect
    \/ Load_with_catalogue
    \/ Load_improved
    \/ Step1Function
    \/ Step1Activity
    \/ Step2
    \/ Step3
    \/ Step4
    \/ Step5(widgets.score)
    \/ \E wid \in SelectWidgets : \E v \in OptionsOnPage : UserSelect(wid, v)
    \/ \E tool \in ToolsOnPage : \E v \in MIN_SCORE..MAX_SCORE : UserScore(tool, v)

Spec == Init /\ [][Next]_vars

(***************************************************************************)
(* The matcher and recommender specification: steps 3 to 5 on every        *)
(* catalogue of up to MaxCat rows, every tool type and cost tier and every *)
(* position of the sliders.  Tool names are unique within a catalogue (the *)
(* name is the key of the tool's slider).                                  *)
(***************************************************************************)
CatTools == [i \in 1..(MaxCat + 1) |-> "Tool" \o At("123456789", i)]
CatTypes == {"RPA", "LLM Assistant"}
CatPricings == {"Freemium", "ENTERPRISE plan", NaN}
MatchTypes == {"RPA", "Creative/Design AI", "Chatbot"}

\* a catalogue row: only Tool, Type and Pricing are read by steps 4 and 5
entry(tool, type, pricing) == <<tool, type, "", "", "", pricing, "">>

Catalogues ==
    UNION {{[columns |-> desired_cols,
             rows |-> [i \in 1..n |-> entry(CatTools[i], ty[i], pr[i])]] :
               ty \in [1..n -> CatTypes], pr \in [1..n -> CatPricings]} : n \in 0..MaxCat}

\* every assignment of slider values to the tools of the frame m
SliderSettings(m) ==
    LET tools == IF m = NoFrame THEN {} ELSE {cell(m, r, "Tool") : r \in 1..Len(m.rows)}
    IN {{<<tl, f[tl]>> : tl \in tools} : f \in [tools -> MIN_SCORE..MAX_SCORE]}

InitMatch ==
    /\ \/ variant = "with_catalogue" /\ catalogue_df \in Catalogues
       \/ variant \in {"app", "auto_detect", "improved"} /\ catalogue_df = DEMO_CATALOGUE
    /\ workbook = <<>>
    /\ cycles = 0
    /\ pc = "step3"
    /\ df = NoFrame
    /\ status = "ok"
    /\ sheet_used = None
    /\ cols = REQUIRED
    /\ functions = <<>>
    /\ selected_function = None
    /\ activities = <<>>
    /\ selected_activity = None
    /\ tool_types = <<>>
    /\ selected_type \in MatchTypes
    /\ selected_type_label = label_of(selected_type)
    /\ \E c \in Range(COST_OPTIONS) :
          widgets = [NoWidgets EXCEPT !.cost = [opts |-> COST_OPTIONS, val |-> c]]
    /\ cost = None
    /\ matches = NoFrame
    /\ scores = <<>>
    /\ best = None
    /\ msgs = {}
    /\ rendered = {"function", "activity", "type"}

NextMatch ==
    \/ Step3
    \/ Step4
    \/ \E s \in SliderSettings(matches) : Step5(s)

SpecMatch == InitMatch /\ [][NextMatch]_vars

(***************************************************************************)
(* Claims on the matcher and the recommender (SpecMatch).                  *)
(***************************************************************************)
Matched == pc = "step5"

\* the catalogue rows of the selected type, and those of them whose pricing
\* has the cost tier in it whatever the case of the letters
RowsOfType ==
    {r \in 1..Len(catalogue_df.rows) : cell(catalogue_df, r, "Type") = selected_type}

RowsOfTypeAndCost ==
    {r \in RowsOfType :
        LET p == cell(catalogue_df, r, "Pricing")
        IN p # NaN /\ \E i \in 0..(Len(p) - Len(cost)) : \A k \in 1..Len(cost) :
                          lower_ch(At(p, i + k)) = lower_ch(At(cost, k))}

RowsAt(S) == [k \in 1..Cardinality(S) |-> catalogue_df.rows[seq_of(S)[k]]]

MatchedTools == [k \in 1..Len(matches.rows) |-> cell(matches, k, "Tool")]

\* C1: the matcher returns the rows of the selected type whose pricing
\* contains the cost tier (case-insensitively) when there are any, and
\* otherwise all rows of the type; on the built-in catalogue (RPA,
\* Subscription) gives UiPath by relaxation and (Creative/Design AI,
\* Freemium) gives Figma AI and Canva AI without relaxation.
C1_MatchStrictElseType ==
    Matched =>
        /\ RowsOfTypeAndCost # {} => matches.rows = RowsAt(RowsOfTypeAndCost)
        /\ RowsOfTypeAndCost = {} => matches.rows = RowsAt(RowsOfType)
        /\ (catalogue_df = DEMO_CATALOGUE /\ selected_type = "RPA" /\ cost = "Subscription")
              => MatchedTools = <<"UiPath">> /\ "info:cost_relaxed" \in msgs
        /\ (catalogue_df = DEMO_CATALOGUE /\ selected_type = "Creative/Design AI"
              /\ cost = "Freemium")
              => MatchedTools = <<"Figma AI", "Canva AI">> /\ "info:cost_relaxed" \notin msgs

\* a relaxed match was returned: rows of the type exist, none of them passes
\* the cost filter, and all the rows of the type came back with the notice
C1_Witness ==
    /\ Matched
    /\ RowsOfType # {}
    /\ RowsOfTypeAndCost = {}
    /\ matches.rows = RowsAt(RowsOfType)
    /\ "info:cost_relaxed" \in msgs
    /\ catalogue_df = DEMO_CATALOGUE /\ selected_type = "RPA" /\ cost = "Subscription"

\* C2: the notice that the cost filter was relaxed is issued only when the
\* selected type has catalogue rows; with none the matcher returns empty and
\* the user is asked to broaden the tool type instead.
C2_RelaxedOnlyWithRows ==
    (Matched /\ RowsOfType = {}) =>
        /\ matches.rows = <<>>
        /\ "info:cost_relaxed" \notin msgs

\* C3: the recommended tool has the maximum score of the matched tools and
\* is the first of those with that score, in the order of the catalogue; with
\* every slider at its default the first matched tool is recommended.
C3_FirstMaximum ==
    (pc = "done" /\ Len(matches.rows) > 0) =>
        /\ Len(scores) = Len(matches.rows)
        /\ \E k \in 1..Len(scores) :
              /\ best = MatchedTools[k]
              /\ scores[k][1] = best
              /\ \A j \in 1..Len(scores) : scores[j][2] <= scores[k][2]
              /\ \A j \in 1..(k - 1) : scores[j][2] < scores[k][2]
        /\ (\A j \in 1..Len(scores) : scores[j][2] = DEFAULT_SCORE) => best = MatchedTools[1]

\* three matched tools of which the second and third share the maximum
C3_Witness ==
    /\ pc = "done"
    /\ Len(scores) = 3
    /\ scores[1][2] < scores[2][2]
    /\ scores[2][2] = scores[3][2]
    /\ best = scores[2][1]

(***************************************************************************)
(* The resolver specification: the load step of the two scripts that scan  *)
(* the sheets, on every workbook of up to MaxSheets sheets.                *)
(***************************************************************************)
SheetNames == {"Sheet1", "Matrix", "Data", "Extra"}

SheetHeaders ==
    { REQUIRED,
      <<"Business Function", "Activity", "Tool Type">>,
      <<" Dept ", "TASK", "ai category">>,
      <<"Topic", "Text", "Misc">> }

SheetPool ==
    {[name |-> n, columns |-> h, rows |-> << <<n, "Audit", "RPA">> >>] :
        n \in SheetNames, h \in SheetHeaders}

WorkbooksUpTo(n) ==
    UNION {{wb \in [1..k -> SheetPool] :
              \A i, j \in 1..k : i # j => wb[i].name # wb[j].name} : k \in 1..n}

InitResolve ==
    /\ variant \in {"auto_detect", "with_catalogue"}
    /\ workbook \in WorkbooksUpTo(MaxSheets)
    /\ widgets = NoWidgets
    /\ cycles = 0
    /\ FreshRun

NextResolve ==
    \/ Load_auto_detect
    \/ Load_with_catalogue

SpecResolve == InitResolve /\ [][NextResolve]_vars

(***************************************************************************)
(* The normalizer specification: the load step of the four scripts on a    *)
(* sheet in which one canonical header is replaced by a header of the      *)
(* pool: every alias as written, in upper case, padded, with its inner     *)
(* spaces doubled or removed, the canonical header itself, and headers     *)
(* that are no alias (a name pandas gives a header-less column included,   *)
(* also typed into the cell with a space before it).                       *)
(***************************************************************************)
ToUpper ==
    [c \in {ToLower[u] : u \in DOMAIN ToLower} |-> CHOOSE u \in DOMAIN ToLower : ToLower[u] = c]

upper_ch(c) == IF c \in DOMAIN ToUpper THEN ToUpper[c] ELSE c

RECURSIVE upper(_)
upper(s) == IF s = "" THEN "" ELSE upper_ch(Head(s)) \o upper(Tail(s))

RECURSIVE double_spaces(_)
double_spaces(s) ==
    IF s = "" THEN ""
    ELSE (IF Head(s) = " " THEN "  " ELSE Head(s)) \o double_spaces(Tail(s))

RECURSIVE remove_spaces(_)
remove_spaces(s) ==
    IF s = "" THEN ""
    ELSE (IF Head(s) = " " THEN "" ELSE Head(s)) \o remove_spaces(Tail(s))

Spellings(a) == {a, upper(a), " " \o a \o " ", double_spaces(a), remove_spaces(a)}

HeaderPool(k) ==
    UNION {Spellings(a) : a \in RENAME_KEYS[k]}
        \cup {REQUIRED[k], "Notes", "Unnamed: 0", " Unnamed: 0"}

InitNorm ==
    /\ variant \in Variants
    /\ \E k \in 1..3 : \E h \in HeaderPool(k) :
          workbook = << [name |-> "Sheet1",
                         columns |-> [REQUIRED EXCEPT ![k] = h],
                         rows |-> << <<"HR", "Hiring", "RPA">> >>] >>
    /\ widgets = NoWidgets
    /\ cycles = 0
    /\ FreshRun

NextNorm ==
    \/ Load_app
    \/ Load_auto_detect
    \/ Load_with_catalogue
    \/ Load_improved

SpecNorm == InitNorm /\ [][NextNorm]_vars

(***************************************************************************)
(* Claims on the pipeline, the resolver and the normalizer.                *)
(***************************************************************************)
AtMatcher == pc \in {"step3", "step4", "step5", "done"}

\* C4: a cycle that reaches the matcher has its activity among the options
\* of its function and its tool type among the options of its function and
\* activity, whatever the user changed in earlier cycles.
C4_SelectionsCurrent ==
    AtMatcher =>
        /\ selected_activity \in
              Range(activities_of(df, cols[1], cols[2], selected_function))
        /\ selected_type \in
              Range(tool_types_of(df, cols[1], cols[2], cols[3],
                                  selected_function, selected_activity))

\* whether a sheet has the three canonical columns after the normalization
\* of the script v
Qualifies(v, sheet) ==
    IF v = "app" THEN has_required(normalize_and_rename_columns(frame(sheet)))
    ELSE IF v = "auto_detect"
        THEN has_required(normalize_and_rename_columns_ad(frame(sheet)))
    ELSE IF v = "with_catalogue"
        THEN has_required(alias_columns(norm_cols(frame(sheet))))
    ELSE None \notin {find_col(frame(sheet), FN_ALIASES),
                      find_col(frame(sheet), ACT_ALIASES),
                      find_col(frame(sheet), TYPE_ALIASES)}

QualifyingSheets == {i \in 1..Len(workbook) : Qualifies(variant, workbook[i])}

MissingSignalled ==
    IF variant = "improved" THEN "warning:missing_columns" \in msgs
    ELSE status = "missing_required_columns"

Resolved == pc # "load" /\ variant \in {"auto_detect", "with_catalogue"}

FirstQualifyingChosen ==
    IF QualifyingSheets # {}
    THEN sheet_used = workbook[first_of(QualifyingSheets)].name /\ status = "ok"
    ELSE sheet_used = workbook[1].name /\ status = "missing_required_columns"

\* C6 as claimed: the resolver takes the first sheet, in the order of the
\* workbook, that has the three canonical columns after normalization, and
\* without any such sheet returns the first sheet with the missing status.
C6_FirstQualifyingSheet == Resolved => FirstQualifyingChosen

\* a sheet named Matrix whose stripped headers are the canonical ones
MatrixAsWritten ==
    \E i \in 1..Len(workbook) :
        /\ workbook[i].name = "Matrix"
        /\ \A c \in Range(REQUIRED) : \E k \in 1..Len(workbook[i].columns) :
              /\ strip(workbook[i].columns[k]) = c
              /\ ~startswith(lower(workbook[i].columns[k]), "unnamed")

\* C6 as amended: app_auto_detect.py takes the first qualifying sheet and,
\* without one, the first sheet with the missing status;
\* app_with_catalogue.py takes the sheet named Matrix when it carries the
\* canonical headers as written, wherever it stands, else the first sheet
\* qualifying after aliasing, and without one returns no sheet at all with
\* the missing status.
C6_ResolverOrder ==
    Resolved =>
        /\ variant = "auto_detect" => FirstQualifyingChosen
        /\ variant = "with_catalogue" =>
              IF MatrixAsWritten THEN sheet_used = "Matrix" /\ status = "ok"
              ELSE IF QualifyingSheets # {}
                  THEN /\ sheet_used = workbook[first_of(QualifyingSheets)].name
                       /\ status = "ok"
              ELSE /\ sheet_used = None /\ df = NoFrame
                   /\ status = "missing_required_columns"

\* both sheets qualify and the second, named Matrix, was taken
C6_Witness ==
    /\ variant = "with_catalogue"
    /\ pc = "step1"
    /\ Len(workbook) = 2
    /\ QualifyingSheets = {1, 2}
    /\ workbook[2].name = "Matrix"
    /\ sheet_used = "Matrix"

\* the alias table of the running script for the canonical header k
AliasTable(v, k) ==
    IF v = "with_catalogue" THEN ALIAS_KEYS[k]
    ELSE IF v = "improved"
        THEN Range(<<FN_ALIASES, ACT_ALIASES, TYPE_ALIASES>>[k])
    ELSE RENAME_KEYS[k]

\* h and a differ in letter case and white space only
SameButCaseAndSpace(h, a) == lower(remove_spaces(h)) = lower(remove_spaces(a))

\* the k-th header of the sheet was taken for the canonical header k
MappedToCanonical(k) ==
    IF variant = "improved" THEN cols[k] = workbook[1].columns[k]
    ELSE IF variant = "with_catalogue"
        THEN (\A j \in 1..3 : j # k => workbook[1].columns[j] = REQUIRED[j]) => status = "ok"
    ELSE LET at == Cardinality({i \in 1..k :
                                  ~startswith(lower(workbook[1].columns[i]), "unnamed")})
         IN df # NoFrame /\ df.columns[at] = REQUIRED[k]

\* C7: a header that differs from an alias of the table in letter case or in
\* white space only (leading, trailing or inner) is mapped to the canonical
\* column of the alias.
C7_AliasSpellingsMapped ==
    pc # "load" =>
        \A k \in 1..3 : \A a \in AliasTable(variant, k) :
            SameButCaseAndSpace(workbook[1].columns[k], a) => MappedToCanonical(k)

\* no header of sheet 0 is renamed to the canonical header k by app.py
NoHeaderFor(k) ==
    /\ variant = "app"
    /\ \A i \in 1..Len(workbook[1].columns) :
          \/ startswith(lower(workbook[1].columns[i]), "unnamed")
          \/ rename_map_get(lower(strip(workbook[1].columns[i])),
                            strip(workbook[1].columns[i])) # REQUIRED[k]

StageOptions(k) == <<functions, activities, tool_types>>[k]

\* C8: when no header matches a canonical name, the canonical column is
\* there with every cell empty, nothing is raised, and the selector stage of
\* that column offers no option: the run ends without options.
C8_BlankColumnNoOptions ==
    \A k \in 1..3 :
        (NoHeaderFor(k) /\ pc # "load") =>
            /\ one_column(df, REQUIRED[k])
            /\ \A r \in 1..Len(df.rows) : cell(df, r, REQUIRED[k]) = ""
            /\ pc # "crashed"
            /\ StageOptions(k) = <<>>
            /\ ~AtMatcher

\* the positions in sheet 0 of the headers taken for the Function column
FunctionHeaders ==
    {i \in 1..Len(workbook[1].columns) :
        /\ ~startswith(lower(workbook[1].columns[i]), "unnamed")
        /\ IF variant = "improved"
           THEN norm(workbook[1].columns[i]) \in {norm(FN_ALIASES[j]) : j \in 1..Len(FN_ALIASES)}
           ELSE rename_map_get(lower(strip(workbook[1].columns[i])), "") = REQUIRED[1]}

\* C9: with two or more headers normalizing to the same canonical name the
\* run goes on without error and the selector uses the column of the last
\* of them.
C9_LastDuplicateWins ==
    (variant \in {"app", "improved"} /\ Cardinality(FunctionHeaders) >= 2) =>
        /\ pc # "crashed"
        /\ "function" \in rendered =>
              functions = sorted(unique(dropna(
                  [r \in 1..Len(workbook[1].rows) |->
                      workbook[1].rows[r][last_of(FunctionHeaders)]])))

\* the taxonomy table of the run: the chosen sheet with its cells as read
TaxonomyTable ==
    IF variant = "auto_detect"
    THEN normalize_and_rename_columns_ad(
            frame(workbook[CHOOSE i \in 1..Len(workbook) : workbook[i].name = sheet_used]))
    ELSE df

\* C10: the activity options are the distinct non-empty Activity values of
\* the rows of the selected function, without duplicates, ascending.
C10_ActivityOptions ==
    "activity" \in rendered =>
        /\ Range(activities) =
              {cell(TaxonomyTable, r, cols[2]) :
                  r \in {q \in 1..Len(TaxonomyTable.rows) :
                            cell(TaxonomyTable, q, cols[1]) = selected_function}}
              \ {NaN, ""}
        /\ \A i, j \in 1..Len(activities) : i < j => str_less(activities[i], activities[j])

(***************************************************************************)
(* Claims on the tool-type stage, the label, idempotence and the signals.  *)
(***************************************************************************)
\* the ToolType values of the rows of the taxonomy table with the selected
\* function and activity, blank cells left out
PairTypes ==
    {cell(TaxonomyTable, r, cols[3]) :
        r \in {q \in 1..Len(TaxonomyTable.rows) :
                  /\ cell(TaxonomyTable, q, cols[1]) = selected_function
                  /\ cell(TaxonomyTable, q, cols[2]) = selected_activity}}
    \ {NaN, ""}

Ascending(s) == \A i, j \in 1..Len(s) : i < j => str_less(s[i], s[j])

\* C11: the tool-type options are the distinct non-empty ToolType values of
\* the rows of the selected function and activity, in ascending ordinal
\* order whatever the order of the rows in the sheet.
C11_ToolTypeOptions ==
    "type" \in rendered =>
        /\ Range(tool_types) = PairTypes
        /\ Ascending(tool_types)

\* no row of the table the script filters has the selected function and
\* activity (None when the selectbox had no option)
NoRowForPair ==
    /\ "activity" \in rendered
    /\ pc # "step2"
    /\ ~\E r \in 1..Len(df.rows) :
          /\ cell(df, r, cols[1]) = selected_function
          /\ cell(df, r, cols[2]) = selected_activity

Normalize(v, d) ==
    IF v = "app" THEN normalize_and_rename_columns(d)
    ELSE normalize_and_rename_columns_ad(d)

\* C13: normalizing a table whose headers are the canonical ones returns
\* its headers and data unchanged, and normalizing a normalized table
\* returns it unchanged.
C13_NormalizeIdempotent ==
    (pc # "load" /\ variant \in {"app", "auto_detect"}) =>
        /\ workbook[1].columns = REQUIRED =>
              Normalize(variant, frame(workbook[1])) = frame(workbook[1])
        /\ Normalize(variant, df) = df

\* app.py added a blank canonical column for a header the sheet lacks
BlankColumnsTaken == pc # "load" /\ \E k \in 1..3 : NoHeaderFor(k)

\* step 4 showed the rows of the type because none passed the cost filter
CostRelaxedTaken ==
    "table" \in rendered /\ RowsOfType # {} /\ RowsOfTypeAndCost = {}

\* app_with_catalogue.py found no Catalogue sheet and took the built-in list
DemoCatalogueTaken ==
    /\ variant = "with_catalogue"
    /\ pc \notin {"load", "stopped"}
    /\ find_catalogue_sheet(workbook).df = NoFrame

\* the messages of the scripts that tell of missing columns
MissingColumnSignals == {"warning:missing_columns", "error:missing_required_columns"}

\* C14: each fallback taken in a run (blank canonical columns, relaxed cost
\* filter, built-in catalogue) is reported by a message of that run.
C14_NoSilentFallback ==
    /\ BlankColumnsTaken => msgs \cap MissingColumnSignals # {}
    /\ CostRelaxedTaken => "info:cost_relaxed" \in msgs
    /\ DemoCatalogueTaken => "warning:demo_catalogue" \in msgs

\* C15: the type cut out of the label of every tool type offered in step 2
\* is that tool type, also when the type has " (" in it, so the matcher
\* filters on a tool type of the taxonomy.
C15_LabelRoundTrip ==
    "type" \in rendered =>
        /\ \A i \in 1..Len(tool_types) :
              clean_type(label_of(tool_types[i])) = tool_types[i]
        /\ selected_type \in Range(tool_types)

\* the catalogue rows of the selected type priced "Freemium"
FreemiumRows ==
    {r \in RowsOfType : cell(catalogue_df, r, "Pricing") = "Freemium"}

\* C16: with the cost tier "Free", every row of the selected type priced
\* "Freemium" is among the matches, the matches all pass the cost filter and
\* no notice of a relaxed filter is shown.
C16_FreeMatchesFreemium ==
    (Matched /\ cost = "Free" /\ FreemiumRows # {}) =>
        /\ \A r \in FreemiumRows : catalogue_df.rows[r] \in Range(matches.rows)
        /\ matches.rows = RowsAt(RowsOfTypeAndCost)
        /\ "info:cost_relaxed" \notin msgs

\* "Free" selected on a catalogue in which some but not all rows of the type
\* are priced "Freemium": those rows and no others were matched
C16_Witness ==
    /\ Matched
    /\ cost = "Free"
    /\ FreemiumRows # {}
    /\ FreemiumRows # RowsOfType
    /\ matches.rows = RowsAt(FreemiumRows)
====
